---- MODULE Spec2Model ----
(***************************************************************************)
(* AIS NMEA decoding and track reconstruction (mana/examples/ais_parser.py) *)
(* and the gap filling of mana/examples/hybrid_ais_processor.py.            *)
(*                                                                         *)
(* Representation of the Python values:                                    *)
(*   - a str is the sequence of its character codes (ASCII);               *)
(*   - a bit string ("0101...") is a sequence over {0, 1};                 *)
(*   - Optional[x] is <<>> (None) or <<x>>;                                *)
(*   - a latitude/longitude float lat_raw / 600000.0 is kept as its        *)
(*     numerator, in units of 1/600000 degree (90 degrees = 54000000);     *)
(*   - sog and cog (raw / 10.0) are kept in tenths of a knot / degree;     *)
(*   - a naive datetime is the number of seconds it denotes, so that the   *)
(*     difference of two of them is total_seconds().                       *)
(***************************************************************************)
EXTENDS Integers, Sequences, FiniteSets, TLC

VARIABLES
    utcoffset,            \* local-time offset datetime.fromtimestamp applies
    line_num,             \* number of lines the loop has consumed
    consumed,             \* the lines consumed so far, in order (history)
    parsed,               \* what parse_nmea_line returned for the last line
    ship_data,            \* the output list of track points
    emitted_at,           \* line number that appended each track point (history)
    ship_static_data,     \* dict MMSI -> last static/voyage record
    ship_last_positions,  \* dict MMSI -> last known position state
    dr_call,              \* arguments of the last calculate_position call
    aborted,              \* an exception left process_ais_log_file
    binary,               \* decoder harness: the bitstream under test
    decoded,              \* decoder harness: <<result>> once decoded
    chars,                \* armoring harness: the payload characters under test
    armored,              \* armoring harness: <<their bit string>> once decoded
    start,                \* estimator harness: the arguments under test
    estimate,             \* estimator harness: <<results>> once computed
    positions,            \* HybridAISProcessor: ship_positions[mmsi] of one vessel
    pos_i,                \* HybridAISProcessor: index of the next position
    last_lat,             \* HybridAISProcessor._apply_dead_reckoning local
    last_lon,             \* HybridAISProcessor._apply_dead_reckoning local
    last_time             \* HybridAISProcessor._apply_dead_reckoning local

\* the locals of process_ais_log_file and its history
fileVars == <<line_num, consumed, parsed, ship_data, emitted_at,
              ship_static_data, ship_last_positions, aborted>>
decodeVars == <<binary, decoded>>
armorVars == <<chars, armored>>
estimateVars == <<start, estimate>>
hybridVars == <<positions, pos_i, last_lat, last_lon, last_time>>

vars == <<utcoffset, fileVars, dr_call, decodeVars, armorVars, estimateVars,
          hybridVars>>

None == <<>>
Some(v) == <<v>>

Abs(x) == IF x < 0 THEN -x ELSE x
Min(a, b) == IF a < b THEN a ELSE b

(***************************************************************************)
(* Python primitives                                                       *)
(***************************************************************************)
\* s[a:b] for 0 <= a <= b: clamped to the length, never an error
Slice(s, a, b) == SubSeq(s, a + 1, Min(b, Len(s)))

\* int(bits, 2) of a non-empty bit string
RECURSIVE BinToInt(_)
BinToInt(bits) ==
    IF bits = <<>> THEN 0
    ELSE 2 * BinToInt(SubSeq(bits, 1, Len(bits) - 1)) + bits[Len(bits)]

\* faulty variant: least significant bit first
Format06b_LsbFirst(val) ==
    [i \in 1..6 |-> (val \div (2 ^ (i - 1))) % 2]

\* format(val, '06b'): six bits, most significant first (val < 64)
Format06b(val) ==
    [i \in 1..6 |-> (val \div (2 ^ (6 - i))) % 2]

\* int(digits) of a decimal digit string
RECURSIVE DecimalToInt(_)
DecimalToInt(digits) ==
    IF digits = <<>> THEN 0
    ELSE 10 * DecimalToInt(SubSeq(digits, 1, Len(digits) - 1))
         + (digits[Len(digits)] - 48)

(***************************************************************************)
(* AISParser._ais_to_binary                                                *)
(***************************************************************************)
\* the 6-bit value of one payload character, None when it is skipped
CharValue(char) ==
    IF char = 64 THEN Some(0)                                   \* '@'
    ELSE IF char >= 65 /\ char <= 87 THEN Some(char - 65 + 1)   \* 'A'..'W'
    ELSE IF char >= 97 /\ char <= 119 THEN Some(char - 97 + 33) \* 'a'..'w'
    ELSE IF char >= 48 /\ char <= 57 THEN Some(char - 48 + 48)  \* '0'..'9'
    ELSE None

RECURSIVE AisToBinary(_)
AisToBinary(ais_data) ==
    IF ais_data = <<>> THEN <<>>
    ELSE LET val == CharValue(Head(ais_data))
         IN  (IF val = None THEN <<>> ELSE Format06b(val[1]))
             \o AisToBinary(Tail(ais_data))

(***************************************************************************)
(* AISParser._parse_position_report                                        *)
(***************************************************************************)
MinPositionBits == 168
LAT_INVALID == 54600000     \* 0x3412140
LON_INVALID == 108600000    \* 0x6791AC0

\* faulty variant: the latitude is compared with the longitude sentinel
ConvertLat_LonSentinel(lat_raw) ==
    IF lat_raw = LON_INVALID THEN None
    ELSE IF lat_raw > 90 * 600000 THEN Some(lat_raw - 180 * 600000)
    ELSE Some(lat_raw)

\* faulty variant: the latitude sentinel is reported as latitude 0.0
ConvertLat_SentinelIsZero(lat_raw) ==
    IF lat_raw = LAT_INVALID THEN Some(0)
    ELSE IF lat_raw > 90 * 600000 THEN Some(lat_raw - 180 * 600000)
    ELSE Some(lat_raw)

\* faulty variant: the correction already applies at exactly 90 degrees
ConvertLat_WrapAt90(lat_raw) ==
    IF lat_raw = LAT_INVALID THEN None
    ELSE IF lat_raw >= 90 * 600000 THEN Some(lat_raw - 180 * 600000)
    ELSE Some(lat_raw)

\* lat_raw -> lat (None for the sentinel), with the wraparound correction
ConvertLat(lat_raw) ==
    IF lat_raw = LAT_INVALID THEN None
    ELSE IF lat_raw > 90 * 600000 THEN Some(lat_raw - 180 * 600000)
    ELSE Some(lat_raw)

\* lon_raw -> lon (None for the sentinel), with the wraparound correction
ConvertLon(lon_raw) ==
    IF lon_raw = LON_INVALID THEN None
    ELSE IF lon_raw > 180 * 600000 THEN Some(lon_raw - 360 * 600000)
    ELSE Some(lon_raw)

\* the bit ranges read by int(binary[a:b], 2); an empty one raises ValueError
PositionFields ==
    << <<8, 38>>, <<38, 42>>, <<42, 50>>, <<50, 60>>, <<60, 61>>,
       <<61, 89>>, <<89, 116>>, <<116, 128>>, <<128, 137>>, <<137, 143>> >>

FieldsRaise(bits, fields) ==
    \E i \in 1..Len(fields) : Slice(bits, fields[i][1], fields[i][2]) = <<>>

\* faulty variant: only a coordinate that is present is validated, a report
\* without a fix is returned
PositionReportBody_KeepsMissing(bits, timestamp, msg_type) ==
    IF FieldsRaise(bits, PositionFields) THEN None
    ELSE
      LET lat == ConvertLat(BinToInt(Slice(bits, 89, 116)))
          lon == ConvertLon(BinToInt(Slice(bits, 61, 89)))
      IN  IF \/ (lat # None /\ Abs(lat[1]) > 90 * 600000)
             \/ (lon # None /\ Abs(lon[1]) > 180 * 600000)
          THEN None
          ELSE Some([timestamp |-> timestamp,
                     mmsi |-> BinToInt(Slice(bits, 8, 38)),
                     message_type |-> msg_type,
                     nav_status |-> BinToInt(Slice(bits, 38, 42)),
                     rot |-> BinToInt(Slice(bits, 42, 50)),
                     sog |-> BinToInt(Slice(bits, 50, 60)),
                     position_accuracy |-> BinToInt(Slice(bits, 60, 61)),
                     lat |-> lat,
                     lon |-> lon,
                     cog |-> BinToInt(Slice(bits, 116, 128)),
                     true_heading |-> BinToInt(Slice(bits, 128, 137)),
                     timestamp_sec |-> BinToInt(Slice(bits, 137, 143))])

\* the field extraction, conversion and validation of _parse_position_report
PositionReportBody(bits, timestamp, msg_type) ==
    IF FieldsRaise(bits, PositionFields) THEN None        \* except: return None
    ELSE
      LET mmsi == BinToInt(Slice(bits, 8, 38))
          nav_status == BinToInt(Slice(bits, 38, 42))
          rot == BinToInt(Slice(bits, 42, 50))
          sog == BinToInt(Slice(bits, 50, 60))
          position_accuracy == BinToInt(Slice(bits, 60, 61))
          lon_raw == BinToInt(Slice(bits, 61, 89))
          lat_raw == BinToInt(Slice(bits, 89, 116))
          cog == BinToInt(Slice(bits, 116, 128))
          true_heading == BinToInt(Slice(bits, 128, 137))
          timestamp_sec == BinToInt(Slice(bits, 137, 143))
          lat == ConvertLat(lat_raw)
          lon == ConvertLon(lon_raw)
      IN  IF lat = None \/ lon = None
             \/ Abs(lat[1]) > 90 * 600000 \/ Abs(lon[1]) > 180 * 600000
          THEN None
          ELSE Some([timestamp |-> timestamp,
                     mmsi |-> mmsi,
                     message_type |-> msg_type,
                     nav_status |-> nav_status,
                     rot |-> rot,
                     sog |-> sog,
                     position_accuracy |-> position_accuracy,
                     lat |-> lat,
                     lon |-> lon,
                     cog |-> cog,
                     true_heading |-> true_heading,
                     timestamp_sec |-> timestamp_sec])

\* faulty variant: the length check stops at the last bit read (143), not at 168
ParsePositionReport_ShortCheck(bits, timestamp, msg_type) ==
    IF Len(bits) < 143 THEN None
    ELSE PositionReportBody(bits, timestamp, msg_type)

ParsePositionReport(bits, timestamp, msg_type) ==
    IF Len(bits) < MinPositionBits THEN None
    ELSE PositionReportBody(bits, timestamp, msg_type)

(***************************************************************************)
(* AISParser._decode_text and the ship type table                          *)
(***************************************************************************)
\* the characters one 6-bit group appends to the text (none when skipped)
TextChar(char_val) ==
    IF char_val <= 26 THEN <<65 + char_val - 1>>         \* 'A'..'Z'
    ELSE IF char_val <= 36 THEN <<48 + char_val - 27>>   \* '0'..'9'
    ELSE IF char_val = 32 THEN <<32>>                    \* ' '
    ELSE IF char_val = 37 THEN <<64>>                    \* '@'
    ELSE IF char_val = 38 THEN <<91>>                    \* '['
    ELSE IF char_val = 39 THEN <<92>>                    \* '\'
    ELSE IF char_val = 40 THEN <<93>>                    \* ']'
    ELSE IF char_val = 41 THEN <<94>>                    \* '^'
    ELSE IF char_val = 42 THEN <<95>>                    \* '_'
    ELSE <<>>

\* the loop of _decode_text from bit offset i on
RECURSIVE DecodeTextFrom(_, _)
DecodeTextFrom(bits, i) ==
    IF i >= Len(bits) \/ i + 6 > Len(bits) THEN <<>>
    ELSE LET char_val == BinToInt(Slice(bits, i, i + 6))
         IN  IF char_val = 0 THEN <<>>
             ELSE TextChar(char_val) \o DecodeTextFrom(bits, i + 6)

IsSpace(c) == c = 32 \/ (c >= 9 /\ c <= 13)

\* str.strip()
RECURSIVE Strip(_)
Strip(text) ==
    IF text = <<>> THEN <<>>
    ELSE IF IsSpace(Head(text)) THEN Strip(Tail(text))
    ELSE IF IsSpace(text[Len(text)]) THEN Strip(SubSeq(text, 1, Len(text) - 1))
    ELSE text

DecodeText(bits) == Strip(DecodeTextFrom(bits, 0))

\* self.ship_types.get(ship_type, f"Unknown ({ship_type})")
ShipTypeName(ship_type) ==
    IF ship_type \in 20..23 THEN "Wing in ground (WIG)"
    ELSE IF ship_type = 30 THEN "Fishing"
    ELSE IF ship_type = 31 THEN "Towing"
    ELSE IF ship_type = 32 THEN "Towing (large)"
    ELSE IF ship_type = 33 THEN "Dredging or underwater ops"
    ELSE IF ship_type = 34 THEN "Diving ops"
    ELSE IF ship_type = 35 THEN "Military ops"
    ELSE IF ship_type = 36 THEN "Sailing"
    ELSE IF ship_type = 37 THEN "Pleasure craft"
    ELSE IF ship_type = 50 THEN "Pilot vessel"
    ELSE IF ship_type = 51 THEN "Search and rescue"
    ELSE IF ship_type = 52 THEN "Tug"
    ELSE IF ship_type = 53 THEN "Port tender"
    ELSE IF ship_type = 54 THEN "Anti-pollution equipment"
    ELSE IF ship_type = 55 THEN "Law enforcement"
    ELSE IF ship_type \in 56..57 THEN "Spare - local vessel"
    ELSE IF ship_type = 58 THEN "Medical transport"
    ELSE IF ship_type = 59 THEN "Non-combatant ship"
    ELSE IF ship_type \in 60..64 \/ ship_type = 69 THEN "Passenger"
    ELSE IF ship_type \in 70..79 THEN "Cargo"
    ELSE IF ship_type \in 80..89 THEN "Tanker"
    ELSE IF ship_type = 90 THEN "Other"
    ELSE "Unknown (" \o ToString(ship_type) \o ")"

(***************************************************************************)
(* AISParser._parse_static_voyage_data                                     *)
(***************************************************************************)
MinStaticBits == 424

\* the bit ranges read by int(binary[a:b], 2); an empty one raises ValueError
StaticFields ==
    << <<8, 38>>, <<38, 40>>, <<40, 70>>, <<232, 240>>, <<240, 249>>,
       <<249, 258>>, <<258, 264>>, <<264, 270>>, <<270, 274>>, <<274, 279>>,
       <<279, 284>>, <<284, 290>>, <<290, 298>>, <<422, 423>>, <<423, 424>> >>

ParseStaticVoyageData(bits, timestamp) ==
    IF Len(bits) < MinStaticBits THEN None
    ELSE IF FieldsRaise(bits, StaticFields) THEN None     \* except: return None
    ELSE
      LET ship_type == BinToInt(Slice(bits, 232, 240))
      IN  Some([timestamp |-> timestamp,
                mmsi |-> BinToInt(Slice(bits, 8, 38)),
                message_type |-> 5,
                ais_version |-> BinToInt(Slice(bits, 38, 40)),
                imo |-> BinToInt(Slice(bits, 40, 70)),
                call_sign |-> DecodeText(Slice(bits, 70, 112)),
                vessel_name |-> DecodeText(Slice(bits, 112, 232)),
                ship_type |-> ship_type,
                ship_type_name |-> ShipTypeName(ship_type),
                dim_to_bow |-> BinToInt(Slice(bits, 240, 249)),
                dim_to_stern |-> BinToInt(Slice(bits, 249, 258)),
                dim_to_port |-> BinToInt(Slice(bits, 258, 264)),
                dim_to_starboard |-> BinToInt(Slice(bits, 264, 270)),
                eta_month |-> BinToInt(Slice(bits, 270, 274)),
                eta_day |-> BinToInt(Slice(bits, 274, 279)),
                eta_hour |-> BinToInt(Slice(bits, 279, 284)),
                eta_minute |-> BinToInt(Slice(bits, 284, 290)),
                draught |-> BinToInt(Slice(bits, 290, 298)),
                destination |-> DecodeText(Slice(bits, 298, 422)),
                dte |-> BinToInt(Slice(bits, 422, 423)),
                spare |-> BinToInt(Slice(bits, 423, 424))])

(***************************************************************************)
(* AISParser.parse_ais_message and parse_nmea_line                         *)
(***************************************************************************)
\* faulty variant: kind 4 is taken for a position report as well
Dispatch_Kind4(bits, timestamp) ==
    LET message_type == BinToInt(Slice(bits, 0, 6))
    IN  IF message_type \in {1, 2, 3, 4}
        THEN ParsePositionReport(bits, timestamp, message_type)
        ELSE IF message_type = 5
        THEN ParseStaticVoyageData(bits, timestamp)
        ELSE None

\* the dispatch on the first six bits of a non-empty bitstream
Dispatch(bits, timestamp) ==
    LET message_type == BinToInt(Slice(bits, 0, 6))
    IN  IF message_type = 1 \/ message_type = 2 \/ message_type = 3
        THEN ParsePositionReport(bits, timestamp, message_type)
        ELSE IF message_type = 5
        THEN ParseStaticVoyageData(bits, timestamp)
        ELSE None

ParseAisMessage(ais_data, timestamp) ==
    LET bits == AisToBinary(ais_data)
    IN  IF bits = <<>> THEN None ELSE Dispatch(bits, timestamp)

\* datetime.fromtimestamp(int(digits)) raises (year out of range): always from
\* 13 digits on; the model draws no timestamp between 2^31 and that limit
FromTimestampRaises(digits) == Len(digits) > 12

\* datetime.fromtimestamp(timestamp): the naive local time
FromTimestamp(timestamp, offset) == timestamp + offset

\* A line is [c |-> digits, payload |-> chars]: c is the digit string the
\* regex c:(\d+) captures and payload the group of !AIVDM,\d+,\d+,,.,([^,]+);
\* either is <<>> when its regex does not match (both groups are non-empty
\* when they do).
\* The body of the try block: raised is TRUE when an exception leaves it.
ParseNmeaLineBody(line, offset) ==
    IF line.c = <<>> THEN [raised |-> FALSE, result |-> None]
    ELSE IF FromTimestampRaises(line.c) THEN [raised |-> TRUE, result |-> None]
    ELSE IF line.payload = <<>> THEN [raised |-> FALSE, result |-> None]
    ELSE [raised |-> FALSE,
          result |-> ParseAisMessage(line.payload,
                         FromTimestamp(DecimalToInt(line.c), offset))]

\* faulty variant: no try/except around the body
ParseNmeaLine_NoTry(line, offset) == ParseNmeaLineBody(line, offset)

\* parse_nmea_line: except Exception: return None
ParseNmeaLine(line, offset) ==
    LET r == ParseNmeaLineBody(line, offset)
    IN  IF r.raised THEN [raised |-> FALSE, result |-> None] ELSE r

(***************************************************************************)
(* DeadReckoningCalculator                                                 *)
(*                                                                         *)
(* Fixed-point rendering of the float arithmetic, in the units above:      *)
(*   distance_km = sog * dt * 1.852 / 36000 (sog in tenths of a knot);     *)
(*   flat earth : distance_km / 111.0 degrees = sog * dt * 463 / 1665      *)
(*                units of 1/600000 degree;                                *)
(*   great circle: degrees(distance_km / 6371.0) = sog * dt * 463 / 1668   *)
(*                units (463/1668 is within 0.005% of the exact factor).   *)
(* The trigonometry of the course is tabulated for the multiples of 45     *)
(* degrees, the only courses the model draws; float noise below one unit   *)
(* is dropped.                                                             *)
(***************************************************************************)
\* a / b rounded towards zero (b > 0)
Trunc(a, b) == IF a < 0 THEN -((-a) \div b) ELSE a \div b

\* 1000 * math.cos(math.radians(cog)), cog in tenths of a degree
CosCourse(cog) ==
    LET a == cog % 3600
    IN  CASE a = 0 -> 1000 [] a = 450 -> 707 [] a = 900 -> 0
          [] a = 1350 -> -707 [] a = 1800 -> -1000 [] a = 2250 -> -707
          [] a = 2700 -> 0 [] a = 3150 -> 707

\* 1000 * math.sin(math.radians(cog))
SinCourse(cog) ==
    LET a == cog % 3600
    IN  CASE a = 0 -> 0 [] a = 450 -> 707 [] a = 900 -> 1000
          [] a = 1350 -> 707 [] a = 1800 -> 0 [] a = 2250 -> -707
          [] a = 2700 -> -1000 [] a = 3150 -> -707

\* 1000 * cos(lat), by Bhaskara's approximation (within 0.2% for |lat| <= 90)
CosLat1000(lat) ==
    LET x == lat \div 6000                      \* hundredths of a degree
    IN  (324000000 - 4 * x * x) \div ((324000000 + x * x) \div 1000)

\* faulty variant: the distance is compared in nautical miles
FlatEarth_NauticalMiles(sog, time_diff_seconds) ==
    sog * time_diff_seconds < 3600000

\* distance_km < 100, as sog * dt * 1.852 / 36000 < 100
FlatEarth(sog, time_diff_seconds) == sog * time_diff_seconds * 463 < 900000000

\* _haversine_calculate, with the distance given as sog * time_diff_seconds.
\* At zero distance sin(angular_distance) = 0 removes the bearing from both
\* formulas: asin(sin(lat1)) and atan2(0, 1 - sin(lat1) * sin(lat2)).
\* Otherwise along a meridian (bearing 0 or 180 degrees):
\* asin(sin(lat1 +- a)) and atan2(0, cos(a) - sin(lat1) * sin(lat2)).
HaversineCalculate(lat1, lon1, sog, cog, time_diff_seconds) ==
    LET ang == (sog * time_diff_seconds * 463) \div 1668
        lat == CASE ang = 0 -> lat1
                 [] ang # 0 /\ cog % 3600 = 0 -> lat1 + ang
                 [] ang # 0 /\ cog % 3600 = 1800 -> lat1 - ang
    IN  IF lat > 90 * 600000
        THEN [lat |-> 180 * 600000 - lat, lon |-> lon1 + 180 * 600000]
        ELSE IF lat < -(90 * 600000)
        THEN [lat |-> -(180 * 600000) - lat, lon |-> lon1 + 180 * 600000]
        ELSE [lat |-> lat, lon |-> lon1]

\* the flat-earth branch of calculate_position; 111.0 * math.cos(lat1_rad) is
\* never 0.0 in floats, so a zero numerator gives lon_diff = 0 at the poles too
FlatEarthCalculate(lat1, lon1, sog, cog, time_diff_seconds) ==
    LET d == (sog * time_diff_seconds * 463) \div 1665
    IN  [lat |-> lat1 + Trunc(d * CosCourse(cog), 1000),
         lon |-> IF d * SinCourse(cog) = 0 THEN lon1
                 ELSE lon1 + Trunc(d * SinCourse(cog), CosLat1000(lat1))]

\* faulty variant: a vessel is never taken to be slower than 0.1 knot
CalculatePosition_MinSpeed(lat1, lon1, sog, cog, time_diff_seconds) ==
    LET speed == IF sog < 1 THEN 1 ELSE sog
    IN  IF FlatEarth(speed, time_diff_seconds)
        THEN FlatEarthCalculate(lat1, lon1, speed, cog, time_diff_seconds)
        ELSE HaversineCalculate(lat1, lon1, speed, cog, time_diff_seconds)

CalculatePosition(lat1, lon1, sog, cog, time_diff_seconds) ==
    IF FlatEarth(sog, time_diff_seconds)
    THEN FlatEarthCalculate(lat1, lon1, sog, cog, time_diff_seconds)
    ELSE HaversineCalculate(lat1, lon1, sog, cog, time_diff_seconds)

(***************************************************************************)
(* process_ais_log_file: the body of the loop                              *)
(***************************************************************************)
\* faulty variant: d.setdefault(k, v), an existing entry is kept
Put_SetDefault(d, k, v) ==
    [x \in (DOMAIN d) \cup {k} |-> IF x \in DOMAIN d THEN d[x] ELSE v]

\* faulty variant: d = {k: v}, the other entries are lost
Put_Fresh(d, k, v) == [x \in {k} |-> v]

\* d[k] = v on a dict
Put(d, k, v) == [x \in (DOMAIN d) \cup {k} |-> IF x = k THEN v ELSE d[x]]

\* faulty variant: the static data of any vessel is taken
StaticDataOf_AnyVessel(static, mmsi) ==
    IF DOMAIN static # {}
    THEN Some(static[CHOOSE k \in DOMAIN static : TRUE])
    ELSE None

\* faulty variant: the static data is never found
StaticDataOf_Never(static, mmsi) == None

\* ship_static_data.get(mmsi, {}) as Optional: None stands for {}
StaticDataOf(static, mmsi) ==
    IF mmsi \in DOMAIN static THEN Some(static[mmsi]) ELSE None

\* faulty variant: the point carries the coordinates swapped
TrackPoint_Swapped(p, static_data, lat, lon, sog, cog, is_dead_reckoned) ==
    [timestamp |-> p.timestamp,
     mmsi |-> p.mmsi,
     ship_type |-> IF static_data = None THEN 0 ELSE static_data[1].ship_type,
     ship_type_name |-> IF static_data = None THEN None
                        ELSE Some(static_data[1].ship_type_name),
     vessel_name |-> IF static_data = None THEN None
                     ELSE Some(static_data[1].vessel_name),
     lat |-> lon,
     lon |-> lat,
     sog |-> sog,
     cog |-> cog,
     nav_status |-> p.nav_status,
     position_accuracy |-> p.position_accuracy,
     true_heading |-> p.true_heading,
     is_dead_reckoned |-> is_dead_reckoned]

\* faulty variant: the is_dead_reckoned flag is inverted
TrackPoint_FlagInverted(p, static_data, lat, lon, sog, cog, is_dead_reckoned) ==
    [timestamp |-> p.timestamp,
     mmsi |-> p.mmsi,
     ship_type |-> IF static_data = None THEN 0 ELSE static_data[1].ship_type,
     ship_type_name |-> IF static_data = None THEN None
                        ELSE Some(static_data[1].ship_type_name),
     vessel_name |-> IF static_data = None THEN None
                     ELSE Some(static_data[1].vessel_name),
     lat |-> lat,
     lon |-> lon,
     sog |-> sog,
     cog |-> cog,
     nav_status |-> p.nav_status,
     position_accuracy |-> p.position_accuracy,
     true_heading |-> p.true_heading,
     is_dead_reckoned |-> ~is_dead_reckoned]

\* the dict appended to ship_data
TrackPoint(p, static_data, lat, lon, sog, cog, is_dead_reckoned) ==
    [timestamp |-> p.timestamp,
     mmsi |-> p.mmsi,
     ship_type |-> IF static_data = None THEN 0 ELSE static_data[1].ship_type,
     ship_type_name |-> IF static_data = None THEN None
                        ELSE Some(static_data[1].ship_type_name),
     vessel_name |-> IF static_data = None THEN None
                     ELSE Some(static_data[1].vessel_name),
     lat |-> lat,
     lon |-> lon,
     sog |-> sog,
     cog |-> cog,
     nav_status |-> p.nav_status,
     position_accuracy |-> p.position_accuracy,
     true_heading |-> p.true_heading,
     is_dead_reckoned |-> is_dead_reckoned]

\* faulty variant: the point is inserted at the front
AppendPoint_Front(data, point) == <<point>> \o data

\* ship_data.append(point)
AppendPoint(data, point) == Append(data, point)

\* faulty variant: the first static record of a vessel is kept
StoreStatic_KeepFirst(static, p) == Put_SetDefault(static, p.mmsi, p)

\* ship_static_data[mmsi] = parsed
StoreStatic(static, p) == Put(static, p.mmsi, p)

\* the dead reckoning window
WithinWindow(time_diff) == time_diff > 0 /\ time_diff < 3600

\* The effect of one parsed message on the state
\* st = [data, at, static, last, dr]; n is the line number.
ProcessParsed(st, p, n) ==
    IF p.message_type = 5
    THEN [st EXCEPT !.static = StoreStatic(st.static, p)]
    ELSE IF p.message_type \in {1, 2, 3}
    THEN
      LET static_data == StaticDataOf(st.static, p.mmsi)
      IN  IF p.lat # None /\ p.lon # None
          THEN [st EXCEPT
                  !.last = Put(st.last, p.mmsi,
                               [lat |-> p.lat[1], lon |-> p.lon[1],
                                sog |-> p.sog, cog |-> p.cog,
                                timestamp |-> p.timestamp]),
                  !.data = AppendPoint(st.data,
                               TrackPoint(p, static_data, p.lat[1], p.lon[1],
                                          p.sog, p.cog, FALSE)),
                  !.at = Append(st.at, n)]
          ELSE IF p.mmsi \notin DOMAIN st.last THEN st
          ELSE
            LET last_pos == st.last[p.mmsi]
                time_diff == p.timestamp - last_pos.timestamp
            IN  IF ~WithinWindow(time_diff) THEN st
                ELSE
                  LET new == CalculatePosition(last_pos.lat, last_pos.lon,
                                 last_pos.sog, last_pos.cog, time_diff)
                      sog == IF p.sog > 0 THEN p.sog ELSE last_pos.sog
                      cog == IF p.cog >= 0 THEN p.cog ELSE last_pos.cog
                  IN  [st EXCEPT
                         !.dr = Some([lat |-> last_pos.lat, lon |-> last_pos.lon,
                                      sog |-> last_pos.sog, cog |-> last_pos.cog,
                                      time_diff |-> time_diff]),
                         !.last = Put(st.last, p.mmsi,
                                      [lat |-> new.lat, lon |-> new.lon,
                                       sog |-> sog, cog |-> cog,
                                       timestamp |-> p.timestamp]),
                         !.data = AppendPoint(st.data,
                                      TrackPoint(p, static_data, new.lat,
                                                 new.lon, sog, cog, TRUE)),
                         !.at = Append(st.at, n)]
    ELSE st

(***************************************************************************)
(* Input lines                                                             *)
(***************************************************************************)
MaxLines == 3           \* lines fed to one run
T0 == 1758574798        \* capture epoch of the fixture line

\* str(n) of a natural number
RECURSIVE Digits(_)
Digits(n) ==
    IF n < 10 THEN <<48 + n>> ELSE Append(Digits(n \div 10), 48 + (n % 10))

\* s followed by '@' up to n characters
RECURSIVE Pad(_, _)
Pad(s, n) == IF Len(s) >= n THEN s ELSE Pad(Append(s, 64), n)

\* debug_ais.py: 24SR`F0000QPgE0OoVBUUrUj0@R9
Fixture ==
    <<50, 52, 83, 82, 96, 70, 48, 48, 48, 48, 81, 80, 103, 69, 48, 79, 111,
      86, 66, 85, 85, 114, 85, 106, 48, 64, 82, 57>>

\* kind 1, MMSI 5, sog 10.0, cog 0.0, lat 59.195253, lon 21.318453
PosA1 ==
    <<65, 64, 64, 64, 64, 65, 80, 64, 65, 100, 97, 97, 101, 105, 64, 97,
      55, 50, 56, 64, 64, 64, 64, 64, 64, 64, 64, 64>>

\* kind 1, MMSI 5, nav 5, sog 0.0, cog 180.0, lat -8.946640 (wrapped), lon 21.328453
PosA2 ==
    <<65, 64, 64, 64, 64, 65, 85, 64, 64, 64, 65, 97, 104, 100, 97, 97, 56,
      74, 84, 71, 66, 69, 104, 64, 64, 64, 64, 64>>

\* kind 3, MMSI 6, sog 101.7, cog 90.0, lat 31.705707, lon -33.987893 (wrapped)
PosB1 ==
    <<67, 64, 64, 64, 64, 65, 97, 64, 79, 57, 87, 84, 87, 87, 65, 57, 72,
      57, 80, 67, 97, 66, 52, 64, 64, 64, 64, 64>>

\* kind 1, MMSI 5, sog 5.0, cog 180.0, lat_raw 0x3412140, lon 21.318453
PosA_NoLat ==
    <<65, 64, 64, 64, 64, 65, 80, 64, 64, 50, 97, 97, 101, 105, 64, 52, 68,
      97, 80, 71, 66, 64, 64, 64, 64, 64, 64, 64>>

\* kind 2, MMSI 6, nav 5, sog 0.7, cog 0.0, lat_raw 0x3412140, lon 21.318453
PosB_NoLat ==
    <<66, 64, 64, 64, 64, 65, 101, 64, 64, 71, 97, 97, 101, 105, 64, 52,
      68, 97, 80, 64, 64, 64, 64, 64, 64, 64, 64, 64>>

\* kind 4, otherwise PosA1
Unsupported ==
    <<68, 64, 64, 64, 64, 65, 80, 64, 65, 100, 97, 97, 101, 105, 64, 97,
      55, 50, 56, 64, 64, 64, 64, 64, 64, 64, 64, 64>>

\* kind 5, MMSI 5, call sign C1, name AB, ship type 70
StaA1_Head ==
    <<69, 64, 64, 64, 64, 65, 80, 64, 64, 64, 64, 64, 77, 48, 64, 64, 64,
      64, 64, 68, 72, 64, 64, 64, 64, 64, 64, 64, 64, 64, 64, 64, 64, 64,
      64, 64, 64, 64, 65, 70>>

\* kind 5, MMSI 5, call sign C1, name XY, ship type 65
StaA2_Head ==
    <<69, 64, 64, 64, 64, 65, 80, 64, 64, 64, 64, 64, 77, 48, 64, 64, 64,
      64, 65, 97, 100, 64, 64, 64, 64, 64, 64, 64, 64, 64, 64, 64, 64, 64,
      64, 64, 64, 64, 65, 65>>

\* kind 5, MMSI 6, name Q7, ship type 80
StaB1_Head ==
    <<69, 64, 64, 64, 64, 65, 97, 64, 64, 64, 64, 64, 64, 64, 64, 64, 64,
      64, 65, 70, 72, 64, 64, 64, 64, 64, 64, 64, 64, 64, 64, 64, 64, 64,
      64, 64, 64, 64, 65, 80>>

StaA1 == Pad(StaA1_Head, 71)
StaA2 == Pad(StaA2_Head, 71)
StaB1 == Pad(StaB1_Head, 71)

Line(epoch, payload) == [c |-> Digits(epoch), payload |-> payload]

LineTable ==
    << Line(T0, PosA1),                              \*  1
       Line(T0 + 300, PosA1),                        \*  2
       Line(T0 + 300, PosA2),                        \*  3
       Line(T0, PosB1),                              \*  4
       Line(T0 + 300, PosA_NoLat),                   \*  5
       Line(T0 + 3599, PosA_NoLat),                  \*  6
       Line(T0 + 3600, PosA_NoLat),                  \*  7
       Line(T0 + 4000, PosA_NoLat),                  \*  8
       Line(T0 + 300, PosB_NoLat),                   \*  9
       Line(T0, SubSeq(PosA1, 1, 27)),               \* 10: 162 bits
       Line(T0, StaA1),                              \* 11
       Line(T0 + 300, StaA2),                        \* 12
       Line(T0, StaB1),                              \* 13
       Line(T0, SubSeq(StaA1, 1, 70)),               \* 14: 420 bits
       Line(T0, Unsupported),                        \* 15
       Line(T0, <<96>>),                             \* 16: "`", all skipped
       Line(T0, Fixture),                            \* 17
       [c |-> <<>>, payload |-> PosA1],              \* 18: no c: marker
       [c |-> Digits(T0), payload |-> <<>>],         \* 19: no !AIVDM sentence
       [c |-> [i \in 1..14 |-> 57], payload |-> PosA1], \* 20: c:99999999999999
       Line(T0, PosA_NoLat)                          \* 21
    >>

Lines == 1..Len(LineTable)

\* the local-time offsets (TZ) a run may be started under
TZOffsets == {0, 10800}

\* parse_nmea_line of every line, tabulated once per offset
ParsedTable ==
    [offset \in TZOffsets |->
        [i \in Lines |-> ParseNmeaLine(LineTable[i], offset)]]

(***************************************************************************)
(* process_ais_log_file                                                    *)
(***************************************************************************)
\* the locals of process_ais_log_file before the first line
FileInit ==
    /\ line_num = 0
    /\ consumed = <<>>
    /\ parsed = None
    /\ ship_data = <<>>
    /\ emitted_at = <<>>
    /\ ship_static_data = <<>>
    /\ ship_last_positions = <<>>
    /\ aborted = FALSE

\* the parts of the state a specification does not use
DecodeIdle == binary = <<>> /\ decoded = None
ArmorIdle == chars = <<>> /\ armored = None
EstimateIdle == start = None /\ estimate = None
HybridIdle ==
    /\ positions = <<>>
    /\ pos_i = 0
    /\ last_lat = None
    /\ last_lon = None
    /\ last_time = None

Init ==
    /\ utcoffset \in TZOffsets
    /\ FileInit
    /\ dr_call = None
    /\ DecodeIdle
    /\ ArmorIdle
    /\ EstimateIdle
    /\ HybridIdle

\* one iteration of the loop over the file, on line i of LineTable
ProcessLine(i) ==
    /\ ~aborted
    /\ line_num < MaxLines
    /\ LET r == ParsedTable[utcoffset][i]
           st == [data |-> ship_data, at |-> emitted_at,
                  static |-> ship_static_data, last |-> ship_last_positions,
                  dr |-> None]
           new == IF r.raised \/ r.result = None THEN st
                  ELSE ProcessParsed(st, r.result[1], line_num)
       IN  /\ line_num' = line_num + 1
           /\ consumed' = Append(consumed, i)
           /\ parsed' = r.result
           /\ aborted' = r.raised
           /\ ship_data' = new.data
           /\ emitted_at' = new.at
           /\ ship_static_data' = new.static
           /\ ship_last_positions' = new.last
           /\ dr_call' = new.dr
    /\ UNCHANGED <<utcoffset, decodeVars, armorVars, estimateVars, hybridVars>>

Next == \E i \in Lines : ProcessLine(i)

Spec == Init /\ [][Next]_vars

(***************************************************************************)
(* The decoders on their own: Dispatch applied to one bitstream            *)
(***************************************************************************)
\* v as w bits, most significant first
BitField(v, w) == [i \in 1..w |-> (v \div (2 ^ (w - i))) % 2]

\* a position report bitstream in the layout of _parse_position_report,
\* cut or zero-filled to n bits
PositionBits(kind, mmsi, sog, lon_raw, lat_raw, n) ==
    LET full == BitField(kind, 6) \o BitField(0, 2) \o BitField(mmsi, 30)
                \o BitField(5, 4) \o BitField(0, 8) \o BitField(sog, 10)
                \o BitField(1, 1) \o BitField(lon_raw, 28)
                \o BitField(lat_raw, 27) \o BitField(1800, 12)
                \o BitField(90, 9) \o BitField(30, 6) \o BitField(0, 31)
    IN  SubSeq(full, 1, n)

\* the last but one of each is 10 degrees south / west as a signed field
RawLats ==
    {0, 33420000, 90 * 600000, 90 * 600000 + 1, LAT_INVALID, LAT_INVALID + 1,
     2 ^ 27 - 6000000, 2 ^ 27 - 1}
RawLons ==
    {0, 12660000, 180 * 600000, 180 * 600000 + 1, LON_INVALID, LON_INVALID + 1,
     2 ^ 28 - 6000000, 2 ^ 28 - 1}

\* the static message StaA1 with the first three 6-bit groups of its vessel
\* name field (bits [112,130)) replaced
StaticBitsNamed(groups) ==
    LET b == AisToBinary(StaA1)
    IN  SubSeq(b, 1, 112) \o BitField(groups[1], 6) \o BitField(groups[2], 6)
        \o BitField(groups[3], 6) \o SubSeq(b, 131, 424)

\* the static message StaA1 with its ship type field (bits [232,240)) replaced
StaticBitsTyped(ship_type) ==
    LET b == AisToBinary(StaA1)
    IN  SubSeq(b, 1, 232) \o BitField(ship_type, 8) \o SubSeq(b, 241, 424)

\* "A B", "Z09", "A" cut at the terminator, and 31, 32, 33
NameGroups == {<<1, 32, 2>>, <<26, 27, 36>>, <<1, 0, 2>>, <<31, 32, 33>>}

\* message kinds parse_ais_message has no decoder for
OtherKinds == {0, 4, 6, 50, 63}

DecodeInputs ==
    { PositionBits(kind, mmsi, sog, lon_raw, lat_raw, n) :
        kind \in {1, 2, 3}, mmsi \in {5, 6}, sog \in {0, 100},
        lon_raw \in RawLons, lat_raw \in RawLats, n \in {162, 167, 168, 174} }
    \cup { SubSeq(AisToBinary(p), 1, n) :
             p \in {StaA1, StaA2, StaB1}, n \in {420, 423, 424, 426} }
    \cup { PositionBits(kind, 5, 100, 12660000, 33420000, n) :
             kind \in OtherKinds, n \in {6, 168} }
    \cup { BitField(kind, 6) \o SubSeq(AisToBinary(StaA1), 7, 424) :
             kind \in OtherKinds }
    \cup { StaticBitsNamed(groups) : groups \in NameGroups }
    \cup { StaticBitsTyped(ship_type) : ship_type \in 0..255 }

InitDecode ==
    /\ utcoffset = 0
    /\ FileInit
    /\ dr_call = None
    /\ binary \in DecodeInputs
    /\ decoded = None
    /\ ArmorIdle
    /\ EstimateIdle
    /\ HybridIdle

Decode ==
    /\ decoded = None
    /\ decoded' = Some(Dispatch(binary, T0))
    /\ UNCHANGED <<utcoffset, fileVars, dr_call, binary, armorVars,
                   estimateVars, hybridVars>>

NextDecode == Decode

SpecDecode == InitDecode /\ [][NextDecode]_vars

(***************************************************************************)
(* The armoring on its own: _ais_to_binary applied to two characters       *)
(***************************************************************************)
\* the characters of the four ranges _ais_to_binary accepts
AcceptedChars == {64} \cup 65..87 \cup 97..119 \cup 48..57

\* ... and some it skips: ',' ':' 'X' '`' 'x'
SkippedChars == {44, 58, 88, 96, 120}

InitArmor ==
    /\ utcoffset = 0
    /\ FileInit
    /\ dr_call = None
    /\ DecodeIdle
    /\ chars \in { <<c1, c2>> : c1, c2 \in AcceptedChars \cup SkippedChars }
               \cup { <<c1, c2, c3>> : c1, c2, c3 \in {64, 87, 57, 96} }
    /\ armored = None
    /\ EstimateIdle
    /\ HybridIdle

Armor ==
    /\ armored = None
    /\ armored' = Some(AisToBinary(chars))
    /\ UNCHANGED <<utcoffset, fileVars, dr_call, decodeVars, chars,
                   estimateVars, hybridVars>>

NextArmor == Armor

SpecArmor == InitArmor /\ [][NextArmor]_vars

(***************************************************************************)
(* The estimator on its own: both formulas applied to one set of arguments *)
(***************************************************************************)
\* the arguments for which the fixed-point rendering above is defined: the
\* flat-earth longitude needs cos(lat1) above the resolution of CosLat1000
\* unless the numerator is 0, the great circle a course along a meridian
\* unless the distance is 0
HaversineDefined(a) == a.sog = 0 \/ a.cog % 3600 \in {0, 1800}

EstimateDefined(a) ==
    IF FlatEarth(a.sog, a.time_diff)
    THEN a.sog = 0 \/ SinCourse(a.cog) = 0 \/ CosLat1000(a.lat) > 0
    ELSE HaversineDefined(a)

EstimateInputs ==
    { a \in [lat : {-(90 * 600000), -5367984, 0, 35517152, 90 * 600000 - 1,
                    90 * 600000},
             lon : {1 - 180 * 600000, 12791072, 180 * 600000},
             sog : {0, 100, 541, 1017, 1023},
             cog : {0, 450, 900, 1350, 1800, 2250, 2700, 3150, 3600, 4050},
             time_diff : {1, 300, 3593, 3594, 3599}] : EstimateDefined(a) }

InitEstimate ==
    /\ utcoffset = 0
    /\ FileInit
    /\ dr_call = None
    /\ DecodeIdle
    /\ ArmorIdle
    /\ start \in { Some(a) : a \in EstimateInputs }
    /\ estimate = None
    /\ HybridIdle

\* calculate_position, and _haversine_calculate on the same distance
Estimate ==
    /\ estimate = None
    /\ LET a == start[1]
       IN  estimate' =
             Some([position |-> CalculatePosition(a.lat, a.lon, a.sog, a.cog,
                                                  a.time_diff),
                   great_circle |->
                       IF HaversineDefined(a)
                       THEN Some(HaversineCalculate(a.lat, a.lon, a.sog, a.cog,
                                                    a.time_diff))
                       ELSE None])
    /\ UNCHANGED <<utcoffset, fileVars, dr_call, decodeVars, armorVars, start,
                   hybridVars>>

NextEstimate == Estimate

SpecEstimate == InitEstimate /\ [][NextEstimate]_vars

(***************************************************************************)
(* HybridAISProcessor._apply_dead_reckoning on the positions of one vessel *)
(*                                                                         *)
(* A position keeps the fields the method reads or writes: timestamp, lat, *)
(* lon, sog, cog and is_dead_reckoned. The list is what _extract_ship_data *)
(* (fixes only) or _create_realistic_track (random gaps, speeds, courses   *)
(* and times, which restart at every segment) left in ship_positions[mmsi].*)
(***************************************************************************)
MaxTrack == 3           \* positions of the vessel

\* latitude and longitude of Klaipeda, around which the tracks are laid
KlaipedaLat == 33420000     \* 55.7
KlaipedaLon == 12660000     \* 21.1

HybridPositions ==
    { [timestamp |-> t,
       lat |-> IF missing THEN None ELSE Some(KlaipedaLat),
       lon |-> IF missing THEN None ELSE Some(KlaipedaLon),
       sog |-> sc[1], cog |-> sc[2],
       is_dead_reckoned |-> FALSE] :
        t \in {T0, T0 + 300, T0 + 600, T0 + 3900},
        missing \in BOOLEAN,
        sc \in {<<80, 0>>, <<120, 900>>} }

HybridTracks ==
    UNION { [1..n -> HybridPositions] : n \in 1..MaxTrack }

InitHybrid ==
    /\ utcoffset = 0
    /\ FileInit
    /\ dr_call = None
    /\ DecodeIdle
    /\ ArmorIdle
    /\ EstimateIdle
    /\ positions \in HybridTracks
    /\ pos_i = 0
    /\ last_lat = None
    /\ last_lon = None
    /\ last_time = None

\* one iteration of "for i, pos in enumerate(positions)"
ApplyDeadReckoning ==
    /\ pos_i < Len(positions)
    /\ pos_i' = pos_i + 1
    /\ LET i == pos_i + 1
           pos == positions[i]
       IN  IF pos.lat = None \/ pos.lon = None
           THEN IF last_lat # None /\ last_lon # None
                   /\ WithinWindow(pos.timestamp - last_time[1])
                THEN LET time_diff == pos.timestamp - last_time[1]
                         new == CalculatePosition(last_lat[1], last_lon[1],
                                                  pos.sog, pos.cog, time_diff)
                     IN  /\ dr_call' = Some([lat |-> last_lat[1],
                                             lon |-> last_lon[1],
                                             sog |-> pos.sog, cog |-> pos.cog,
                                             time_diff |-> time_diff])
                         /\ positions' =
                               [positions EXCEPT
                                  ![i].lat = Some(new.lat),
                                  ![i].lon = Some(new.lon),
                                  ![i].is_dead_reckoned = TRUE]
                         /\ last_lat' = Some(new.lat)
                         /\ last_lon' = Some(new.lon)
                         /\ UNCHANGED last_time
                ELSE /\ dr_call' = None
                     /\ UNCHANGED <<positions, last_lat, last_lon, last_time>>
           ELSE /\ dr_call' = None
                /\ last_lat' = pos.lat
                /\ last_lon' = pos.lon
                /\ last_time' = Some(pos.timestamp)
                /\ UNCHANGED positions
    /\ UNCHANGED <<utcoffset, fileVars, decodeVars, armorVars, estimateVars>>

NextHybrid == ApplyDeadReckoning

SpecHybrid == InitHybrid /\ [][NextHybrid]_vars

(***************************************************************************)
(* Reading the inputs back, for the properties                             *)
(***************************************************************************)
KindOf(bits) == BinToInt(Slice(bits, 0, 6))
RawMMSI(bits) == BinToInt(Slice(bits, 8, 38))
RawLon(bits) == BinToInt(Slice(bits, 61, 89))
RawLat(bits) == BinToInt(Slice(bits, 89, 116))
RawSog(bits) == BinToInt(Slice(bits, 50, 60))
RawCog(bits) == BinToInt(Slice(bits, 116, 128))

\* the bitstream of every line's payload
BitsTable == [i \in Lines |-> AisToBinary(LineTable[i].payload)]

\* the capture timestamp of line i reaches parse_ais_message
HasTimestamp(i) == LineTable[i].c # <<>> /\ ~FromTimestampRaises(LineTable[i].c)

\* line i carries a structurally valid kind 1/2/3 message
IsPositionLine(i) ==
    /\ HasTimestamp(i)
    /\ Len(BitsTable[i]) >= MinPositionBits
    /\ KindOf(BitsTable[i]) \in {1, 2, 3}

\* ... whose latitude or longitude is the "unavailable" sentinel
IsMissingFixLine(i) ==
    /\ IsPositionLine(i)
    /\ (RawLat(BitsTable[i]) = LAT_INVALID \/ RawLon(BitsTable[i]) = LON_INVALID)

\* line i carries a structurally valid kind 1/2/3 message with both coordinates
IsFixLine(i) ==
    /\ IsPositionLine(i)
    /\ RawLat(BitsTable[i]) # LAT_INVALID
    /\ RawLon(BitsTable[i]) # LON_INVALID

\* line i carries a structurally valid kind 5 message
IsStaticLine(i) ==
    /\ HasTimestamp(i)
    /\ Len(BitsTable[i]) >= MinStaticBits
    /\ KindOf(BitsTable[i]) = 5

\* the naive datetime parse_nmea_line gives line i
LineTime(i) == FromTimestamp(DecimalToInt(LineTable[i].c), utcoffset)

\* the result of the decoder under test, once it ran
Decoded == decoded[1]

\* the line consumed last
LastLine == consumed[Len(consumed)]

(***************************************************************************)
(* Properties                                                              *)
(***************************************************************************)

\* C1: the fixture payload 24SR`F0000QPgE0OoVBUUrUj0@R9 at epoch 1758574798
\* decodes to message kind 1, 2 or 3 and yields a position report carrying
\* the MMSI of its bits [8,38).
C1_FixtureIsPositionReport ==
    (consumed # <<>> /\ LineTable[LastLine] = Line(T0, Fixture)) =>
        /\ KindOf(BitsTable[LastLine]) \in {1, 2, 3}
        /\ parsed # None
        /\ parsed[1].message_type \in {1, 2, 3}
        /\ parsed[1].mmsi = RawMMSI(BitsTable[LastLine])

\* C2: for one MMSI, a report with both coordinates at t0, a report without
\* a fix at t0+300 and one at t0+4000 give a real point for t0, a dead
\* reckoned point for t1, and no point and no state change for t2.
C2_ThreeReportScenario ==
    LET scenario(k) ==
            /\ Len(consumed) = k
            /\ LineTable[consumed[1]] = Line(T0, PosA1)
            /\ LineTable[consumed[2]] = Line(T0 + 300, PosA_NoLat)
            /\ k = 3 => LineTable[consumed[3]] = Line(T0 + 4000, PosA_NoLat)
        outcome ==
            /\ Len(ship_data) = 2
            /\ ~ship_data[1].is_dead_reckoned
            /\ ship_data[1].timestamp = T0 + utcoffset
            /\ ship_data[2].is_dead_reckoned
            /\ ship_data[2].timestamp = T0 + 300 + utcoffset
            /\ ship_last_positions[ship_data[2].mmsi].timestamp
                   = T0 + 300 + utcoffset
            /\ ship_last_positions[ship_data[2].mmsi].lat = ship_data[2].lat
            /\ ship_last_positions[ship_data[2].mmsi].lon = ship_data[2].lon
    IN  (scenario(2) \/ scenario(3)) => outcome

\* C3: for a missing-fix report of a tracked vessel, dead reckoning is
\* attempted when the elapsed time is 3599 seconds and is not attempted when
\* it is 3600 seconds or more.
C3_WindowExclusiveAt3600 ==
    [][\A i \in Lines :
          (/\ consumed' = Append(consumed, i)
           /\ IsMissingFixLine(i)
           /\ RawMMSI(BitsTable[i]) \in DOMAIN ship_last_positions) =>
             LET elapsed == LineTime(i)
                            - ship_last_positions[RawMMSI(BitsTable[i])].timestamp
             IN  /\ elapsed = 3599 => dr_call' # None
                 /\ elapsed >= 3600 => dr_call' = None]_vars

\* C4: a bitstream shorter than the minimum for its kind yields no record,
\* whatever its content: fewer than 168 bits for kinds 1/2/3, fewer than 424
\* bits for kind 5.
C4_TruncatedYieldsNoRecord ==
    decoded # None =>
        /\ (KindOf(binary) \in {1, 2, 3} /\ Len(binary) < 168) => Decoded = None
        /\ (KindOf(binary) = 5 /\ Len(binary) < 424) => Decoded = None

\* a 167-bit kind 1/2/3 bitstream with valid coordinates was rejected
C4_Witness ==
    /\ decoded # None
    /\ KindOf(binary) \in {1, 2, 3}
    /\ Len(binary) = 167
    /\ RawLat(binary) = 33420000
    /\ RawLon(binary) = 12660000
    /\ Decoded = None

\* C5: raw latitude 0x3412140 decodes to an absent latitude and raw longitude
\* 0x6791AC0 to an absent longitude, for every value of the other fields: no
\* record the decoder returns carries a number for that coordinate.
C5_SentinelsDecodeAbsent ==
    (decoded # None /\ KindOf(binary) \in {1, 2, 3} /\ Len(binary) >= 168) =>
        /\ RawLat(binary) = 54600000 =>
              /\ ConvertLat(RawLat(binary)) = None
              /\ Decoded # None => Decoded[1].lat = None
        /\ RawLon(binary) = 108600000 =>
              /\ ConvertLon(RawLon(binary)) = None
              /\ Decoded # None => Decoded[1].lon = None

\* a full-length message with the latitude sentinel and a valid longitude
C5_Witness ==
    /\ decoded # None
    /\ KindOf(binary) = 2
    /\ Len(binary) = 174
    /\ RawMMSI(binary) = 6
    /\ RawLat(binary) = 54600000
    /\ RawLon(binary) = 12660000
    /\ ConvertLat(RawLat(binary)) = None

\* C6: a structurally valid kind 1/2/3 message (at least 168 bits) whose
\* latitude or longitude is the sentinel is still returned as a position
\* report, with that coordinate absent and its MMSI decoded.
C6_MissingFixStillReturned ==
    (/\ decoded # None
     /\ KindOf(binary) \in {1, 2, 3}
     /\ Len(binary) >= 168
     /\ (RawLat(binary) = LAT_INVALID \/ RawLon(binary) = LON_INVALID)) =>
        /\ Decoded # None
        /\ Decoded[1].mmsi = RawMMSI(binary)
        /\ RawLat(binary) = LAT_INVALID => Decoded[1].lat = None
        /\ RawLon(binary) = LON_INVALID => Decoded[1].lon = None

C8_LineYieldsZeroOrOnePoint ==
    [][/\ ~aborted'
       /\ line_num' = line_num + 1
       /\ (Len(ship_data') = Len(ship_data)
           \/ Len(ship_data') = Len(ship_data) + 1)
       /\ parsed' = None => ship_data' = ship_data]_vars

\* a line without c: marker, a line whose timestamp overflows, then a fix
C8_Witness ==
    /\ Len(consumed) = 3
    /\ LineTable[consumed[1]].c = <<>>
    /\ FromTimestampRaises(LineTable[consumed[2]].c)
    /\ emitted_at = <<2>>
    /\ Len(ship_data) = 1
    /\ ~aborted

\* point pt was produced from line i
PointFromLine(pt, i) ==
    LET r == ParsedTable[utcoffset][i].result
    IN  /\ r # None
        /\ r[1].message_type \in {1, 2, 3}
        /\ pt.timestamp = r[1].timestamp
        /\ pt.mmsi = r[1].mmsi
        /\ pt.nav_status = r[1].nav_status
        /\ ~pt.is_dead_reckoned => (pt.lat = r[1].lat[1] /\ pt.lon = r[1].lon[1])

\* C9: the output only grows by appending: an emitted point is never
\* modified, reordered or removed, and the points are in the order of the
\* input lines that produced them.
C9_OutputAppendOnly ==
    [][/\ Len(ship_data') >= Len(ship_data)
       /\ SubSeq(ship_data', 1, Len(ship_data)) = ship_data
       /\ Len(emitted_at') = Len(ship_data')
       /\ \A k \in 1..Len(ship_data') :
             /\ k > 1 => emitted_at'[k - 1] < emitted_at'[k]
             /\ PointFromLine(ship_data'[k], consumed'[emitted_at'[k] + 1])]_vars

\* three points of two vessels, from three different lines
C9_Witness ==
    /\ Len(ship_data) = 3
    /\ emitted_at = <<0, 1, 2>>
    /\ ship_data[1].mmsi = 5 /\ ship_data[2].mmsi = 6 /\ ship_data[3].mmsi = 5
    /\ ship_data[1].lat # ship_data[3].lat

\* C11: for every raw 27-bit latitude and raw 28-bit longitude, the position
\* report decoder yields a latitude that is absent or in (-90, 90] degrees
\* and a longitude that is absent or in (-180, 180] degrees.
C11_CoordinatesInRange ==
    (decoded # None /\ KindOf(binary) \in {1, 2, 3} /\ Len(binary) >= 168) =>
        LET lat == ConvertLat(RawLat(binary))
            lon == ConvertLon(RawLon(binary))
            LatOk(v) == v = None \/ (v[1] > -(90 * 600000) /\ v[1] <= 90 * 600000)
            LonOk(v) == v = None \/ (v[1] > -(180 * 600000) /\ v[1] <= 180 * 600000)
        IN  /\ RawLat(binary) \in 0..(2 ^ 27 - 1)
            /\ RawLon(binary) \in 0..(2 ^ 28 - 1)
            /\ LatOk(lat)
            /\ LonOk(lon)
            /\ Decoded # None => (LatOk(Decoded[1].lat) /\ LonOk(Decoded[1].lon))

\* the first raw values above 90 and 180 degrees came back just above -90
\* and -180 degrees, in a record
C11_Witness ==
    /\ decoded # None
    /\ Len(binary) = 168
    /\ RawLat(binary) = 90 * 600000 + 1
    /\ RawLon(binary) = 180 * 600000 + 1
    /\ Decoded # None
    /\ Decoded[1].lat = Some(1 - 90 * 600000)
    /\ Decoded[1].lon = Some(1 - 180 * 600000)

\* C12: the dispatcher reads the first 6 bits as an unsigned kind: kind 1, 2
\* or 3 goes to the position report decoder, kind 5 to the static/voyage
\* decoder, and every other kind yields no record.
C12_DispatchByKind ==
    decoded # None =>
        LET kind == KindOf(binary)
        IN  /\ kind \in 0..63
            /\ kind \in {1, 2, 3} =>
                  /\ Decoded # None =>
                        /\ Decoded[1].message_type = kind
                        /\ "lat" \in DOMAIN Decoded[1]
                        /\ "vessel_name" \notin DOMAIN Decoded[1]
                  /\ (/\ Len(binary) >= 168
                      /\ RawLat(binary) # LAT_INVALID
                      /\ RawLon(binary) # LON_INVALID) => Decoded # None
            /\ kind = 5 =>
                  /\ Decoded # None =>
                        /\ Decoded[1].message_type = 5
                        /\ "vessel_name" \in DOMAIN Decoded[1]
                        /\ "lat" \notin DOMAIN Decoded[1]
                  /\ Len(binary) >= 424 => Decoded # None
            /\ kind \notin {1, 2, 3, 5} => Decoded = None

\* a kind 4 bitstream that would decode as a position report gave no record
C12_Witness ==
    /\ decoded # None
    /\ KindOf(binary) = 4
    /\ Len(binary) = 168
    /\ RawLat(binary) = 33420000
    /\ RawLon(binary) = 12660000
    /\ ParsePositionReport(binary, T0, 4) # None
    /\ Decoded = None

\* C13: on the characters of the four accepted ranges ('@', 'A'..'W',
\* 'a'..'w', '0'..'9') the character-to-value map is injective, so that the
\* character can be recovered from its value, and every value fits in 6 bits.
C13_ArmorInjective ==
    (/\ armored # None
     /\ Len(chars) = 2
     /\ chars[1] \in AcceptedChars
     /\ chars[2] \in AcceptedChars) =>
        /\ Len(armored[1]) = 12
        /\ chars[1] # chars[2] =>
              BinToInt(Slice(armored[1], 0, 6)) # BinToInt(Slice(armored[1], 6, 12))

\* C14: with speed over ground 0 the estimator returns exactly the starting
\* latitude and longitude, for every course and every elapsed time > 0, and
\* the great-circle formula at zero distance gives the same position.
C14_ZeroSpeedStays ==
    (estimate # None /\ start[1].sog = 0 /\ start[1].time_diff > 0) =>
        /\ estimate[1].position = [lat |-> start[1].lat, lon |-> start[1].lon]
        /\ estimate[1].great_circle = Some(estimate[1].position)

\* at the pole, on a course of 45 degrees, after 3599 seconds
C14_Witness ==
    /\ estimate # None
    /\ start[1].sog = 0
    /\ start[1].cog = 450
    /\ start[1].lat = 90 * 600000
    /\ start[1].lon = 12791072
    /\ start[1].time_diff = 3599
    /\ estimate[1].position = [lat |-> 90 * 600000, lon |-> 12791072]

\* C15: a position report with both coordinates appends exactly one track
\* point, not dead reckoned, with the report's own coordinates, and sets the
\* stored latitude, longitude, speed, course and timestamp of its vessel to
\* the report's values, whatever was stored before.
C15_FixEmitsAndStores ==
    [][\A i \in Lines :
          (consumed' = Append(consumed, i) /\ IsFixLine(i)) =>
             LET b == BitsTable[i]
                 lat == ConvertLat(RawLat(b))[1]
                 lon == ConvertLon(RawLon(b))[1]
                 pt == ship_data'[Len(ship_data')]
             IN  /\ Len(ship_data') = Len(ship_data) + 1
                 /\ SubSeq(ship_data', 1, Len(ship_data)) = ship_data
                 /\ ~pt.is_dead_reckoned
                 /\ pt.mmsi = RawMMSI(b)
                 /\ pt.timestamp = LineTime(i)
                 /\ pt.lat = lat /\ pt.lon = lon
                 /\ pt.sog = RawSog(b) /\ pt.cog = RawCog(b)
                 /\ RawMMSI(b) \in DOMAIN ship_last_positions'
                 /\ ship_last_positions'[RawMMSI(b)] =
                        [lat |-> lat, lon |-> lon,
                         sog |-> RawSog(b), cog |-> RawCog(b),
                         timestamp |-> LineTime(i)]]_vars

\* a fix of MMSI 5 at t0+300, then a different fix of MMSI 5 stamped t0: the
\* stored state went back to the earlier timestamp
C15_Witness ==
    /\ Len(consumed) = 2
    /\ LineTable[consumed[1]] = Line(T0 + 300, PosA2)
    /\ LineTable[consumed[2]] = Line(T0, PosA1)
    /\ Len(ship_data) = 2
    /\ ship_data[1].timestamp > ship_data[2].timestamp
    /\ ~ship_data[2].is_dead_reckoned
    /\ ship_last_positions[5] =
           [lat |-> 35517152, lon |-> 12791072, sog |-> 100, cog |-> 0,
            timestamp |-> T0 + utcoffset]

\* C16: a missing-fix report of a vessel with no stored position, or one
\* whose elapsed time since the stored timestamp is <= 0 or >= 3600 seconds,
\* appends no track point, does not call the estimator (which is never called
\* with elapsed = 0) and leaves the stored state unchanged.
C16_OutsideWindowDropped ==
    [][/\ dr_call' # None => dr_call'[1].time_diff > 0
       /\ \A i \in Lines :
            (/\ consumed' = Append(consumed, i)
             /\ IsMissingFixLine(i)
             /\ LET mmsi == RawMMSI(BitsTable[i])
                IN  \/ mmsi \notin DOMAIN ship_last_positions
                    \/ LineTime(i) - ship_last_positions[mmsi].timestamp <= 0
                    \/ LineTime(i) - ship_last_positions[mmsi].timestamp >= 3600)
            => /\ ship_data' = ship_data
               /\ dr_call' = None
               /\ ship_last_positions' = ship_last_positions]_vars

\* a missing-fix report of an unknown vessel, a fix of it at t0+300, then a
\* missing-fix report stamped t0 (elapsed -300): one point, state of the fix
C16_Witness ==
    /\ Len(consumed) = 3
    /\ LineTable[consumed[1]] = Line(T0 + 300, PosA_NoLat)
    /\ LineTable[consumed[2]] = Line(T0 + 300, PosA1)
    /\ LineTable[consumed[3]] = Line(T0, PosA_NoLat)
    /\ IsMissingFixLine(consumed[3])
    /\ emitted_at = <<1>>
    /\ dr_call = None
    /\ ship_last_positions[5].timestamp = T0 + 300 + utcoffset
    /\ ship_last_positions[5].lat = 35517152

\* C17: whenever a track reconstructor calls the estimator for a missing-fix
\* report, the position, speed and course it passes are the last-known values
\* of the vessel (here: those of the fix just before the report), never the
\* speed or course of the report itself.
C17_EstimatorGetsStoredValues ==
    [][(/\ dr_call' # None
        /\ pos_i' = pos_i + 1
        /\ pos_i >= 1
        /\ positions[pos_i].lat # None
        /\ ~positions[pos_i].is_dead_reckoned) =>
           /\ dr_call'[1].lat = positions[pos_i].lat[1]
           /\ dr_call'[1].lon = positions[pos_i].lon[1]
           /\ dr_call'[1].sog = positions[pos_i].sog
           /\ dr_call'[1].cog = positions[pos_i].cog]_vars

\* C18: the point dead reckoned for a missing-fix report carries the
\* report's own speed (when > 0) and course (when >= 0); the stored state
\* then holds the estimated position, those values and the report's
\* timestamp, and a following missing-fix report is projected from that
\* estimate. Scenario: a fix at t0, missing-fix reports (sog 5.0, cog 180.0)
\* at t0+300 and t0+3599.
C18_DeadReckonedStepCarriesForward ==
    LET scenario(k) ==
            /\ Len(consumed) = k
            /\ LineTable[consumed[1]] = Line(T0, PosA1)
            /\ LineTable[consumed[2]] = Line(T0 + 300, PosA_NoLat)
            /\ k = 3 => LineTable[consumed[3]] = Line(T0 + 3599, PosA_NoLat)
        sog == RawSog(AisToBinary(PosA_NoLat))
        cog == RawCog(AisToBinary(PosA_NoLat))
    IN  (scenario(2) \/ scenario(3)) =>
            /\ Len(ship_data) >= 2
            /\ ship_data[2].is_dead_reckoned
            /\ ship_data[2].sog = sog
            /\ ship_data[2].cog = cog
            /\ scenario(2) =>
                  ship_last_positions[5] =
                      [lat |-> ship_data[2].lat, lon |-> ship_data[2].lon,
                       sog |-> sog, cog |-> cog,
                       timestamp |-> T0 + 300 + utcoffset]
            /\ scenario(3) =>
                  dr_call = Some([lat |-> ship_data[2].lat,
                                  lon |-> ship_data[2].lon,
                                  sog |-> sog, cog |-> cog,
                                  time_diff |-> 3299])

\* C19: a static/voyage message (kind 5) replaces the stored static
\* attributes of its MMSI, appends no track point, and leaves the last-known
\* position state of every MMSI, its own included, unchanged.
C19_StaticReplacesOnly ==
    [][\A i \in Lines :
          (consumed' = Append(consumed, i) /\ IsStaticLine(i)) =>
             LET b == BitsTable[i]
                 mmsi == RawMMSI(b)
             IN  /\ ship_data' = ship_data
                 /\ ship_last_positions' = ship_last_positions
                 /\ dr_call' = None
                 /\ DOMAIN ship_static_data' = DOMAIN ship_static_data \cup {mmsi}
                 /\ ship_static_data'[mmsi].mmsi = mmsi
                 /\ ship_static_data'[mmsi].timestamp = LineTime(i)
                 /\ ship_static_data'[mmsi].ship_type = BinToInt(Slice(b, 232, 240))
                 /\ ship_static_data'[mmsi].vessel_name
                        = DecodeText(Slice(b, 112, 232))
                 /\ \A k \in DOMAIN ship_static_data \ {mmsi} :
                        ship_static_data'[k] = ship_static_data[k]]_vars

\* a fix of MMSI 5, its static record "AB"/70, then its static record "XY"/65
C19_Witness ==
    /\ Len(consumed) = 3
    /\ LineTable[consumed[1]] = Line(T0, PosA1)
    /\ LineTable[consumed[2]] = Line(T0, StaA1)
    /\ LineTable[consumed[3]] = Line(T0 + 300, StaA2)
    /\ Len(ship_data) = 1
    /\ ship_static_data[5].ship_type = 65
    /\ ship_static_data[5].vessel_name = <<88, 89>>
    /\ ship_last_positions[5].timestamp = T0 + utcoffset
    /\ ship_last_positions[5].lat = 35517152

\* C20: every emitted track point carries the static attributes most
\* recently received for its MMSI before it was emitted, and ship-type code 0
\* with an absent vessel name when no static message of that MMSI came before.
C20_PointCarriesLatestStatic ==
    \A k \in 1..Len(ship_data) :
        LET pt == ship_data[k]
            before == { j \in 1..emitted_at[k] :
                          /\ IsStaticLine(consumed[j])
                          /\ RawMMSI(BitsTable[consumed[j]]) = pt.mmsi }
        IN  IF before = {}
            THEN /\ pt.ship_type = 0
                 /\ pt.ship_type_name = None
                 /\ pt.vessel_name = None
            ELSE LET latest == CHOOSE j \in before : \A h \in before : h <= j
                     b == BitsTable[consumed[latest]]
                 IN  /\ pt.ship_type = BinToInt(Slice(b, 232, 240))
                     /\ pt.ship_type_name
                            = Some(ShipTypeName(BinToInt(Slice(b, 232, 240))))
                     /\ pt.vessel_name = Some(DecodeText(Slice(b, 112, 232)))

\* static records "AB"/70 and then "XY"/65 of MMSI 5, then a fix of MMSI 5
C20_Witness ==
    /\ Len(consumed) = 3
    /\ LineTable[consumed[1]] = Line(T0, StaA1)
    /\ LineTable[consumed[2]] = Line(T0 + 300, StaA2)
    /\ emitted_at = <<2>>
    /\ ship_data[1].mmsi = 5
    /\ ship_data[1].ship_type = 65
    /\ ship_data[1].ship_type_name = Some("Unknown (65)")
    /\ ship_data[1].vessel_name = Some(<<88, 89>>)

\* C21: for every non-sentinel raw value, the wraparound correction
\* (subtract 360 degrees above 180, 180 degrees above 90) gives the same
\* coordinate as reading the raw field as a two's-complement signed integer
\* (28-bit longitude, 27-bit latitude).
C21_WraparoundIsTwosComplement ==
    (/\ decoded # None
     /\ KindOf(binary) \in {1, 2, 3}
     /\ Len(binary) >= 168
     /\ RawLat(binary) # LAT_INVALID
     /\ RawLon(binary) # LON_INVALID) =>
        LET Signed(raw, w) == IF raw >= 2 ^ (w - 1) THEN raw - 2 ^ w ELSE raw
        IN  /\ ConvertLat(RawLat(binary)) = Some(Signed(RawLat(binary), 27))
            /\ ConvertLon(RawLon(binary)) = Some(Signed(RawLon(binary), 28))
            /\ Decoded # None =>
                  /\ Decoded[1].lat = Some(Signed(RawLat(binary), 27))
                  /\ Decoded[1].lon = Some(Signed(RawLon(binary), 28))

\* C22: the payload decoder never fails; its output is the in-order
\* concatenation of the 6-bit, most-significant-bit-first value of each
\* accepted character ('@' -> 0, 'A'..'W' -> 1..23, 'a'..'w' -> 33..55,
\* '0'..'9' -> 48..57), every other character being skipped, so its length is
\* 6 times the number of accepted characters.
C22_ArmorConcatenatesValues ==
    armored # None =>
        LET Accepted(c) == c = 64 \/ c \in 65..87 \/ c \in 97..119 \/ c \in 48..57
            Value(c) == IF c = 64 THEN 0
                        ELSE IF c \in 65..87 THEN 1 + (c - 65)
                        ELSE IF c \in 97..119 THEN 33 + (c - 97)
                        ELSE 48 + (c - 48)
            acc == SelectSeq(chars, Accepted)
            bits == armored[1]
        IN  /\ Len(bits) = 6 * Len(acc)
            /\ \A n \in 1..Len(bits) : bits[n] \in {0, 1}
            /\ \A k \in 1..Len(acc) :
                  /\ BinToInt(SubSeq(bits, 6 * k - 5, 6 * k)) = Value(acc[k])
                  /\ bits[6 * k - 5] = Value(acc[k]) \div 32

\* "W`9": the backtick is skipped, 23 and 57 follow each other
C22_Witness ==
    /\ chars = <<87, 96, 57>>
    /\ armored = Some(<<0, 1, 0, 1, 1, 1, 1, 1, 1, 0, 0, 1>>)

\* C23: in the 6-bit text of a static message, decoding stops at the first
\* group of value 0; before it, a group of value 32 decodes to a space,
\* values 1..26 to 'A'..'Z' and the other values of 27..36 to digits (shown
\* on the vessel name, for names whose groups before the terminator are all
\* in 1..36).
C23_TextDecoding ==
    (decoded # None /\ KindOf(binary) = 5 /\ Len(binary) >= 424 /\ Decoded # None) =>
        LET g == [k \in 1..20 |-> BinToInt(SubSeq(binary, 107 + 6 * k, 112 + 6 * k))]
            stop == {k \in 1..20 : g[k] = 0}
            n == IF stop = {} THEN 20
                 ELSE (CHOOSE k \in stop : \A h \in stop : k <= h) - 1
            Char(v) == IF v = 32 THEN 32
                       ELSE IF v <= 26 THEN 64 + v
                       ELSE 48 + (v - 27)
        IN  (\A k \in 1..n : g[k] \in 1..36) =>
                Decoded[1].vessel_name = Strip([k \in 1..n |-> Char(g[k])])

\* C24: for every 8-bit ship-type code the resolved name follows the range
\* table (20-23 WIG, 30 fishing, 31-32 towing, 33 dredging, 34 diving,
\* 35 military, 36 sailing, 37 pleasure craft, 50-59 special services, every
\* code 60-69 passenger, 70-79 cargo, 80-89 tanker, 90 other), and every
\* other code resolves to "Unknown (<code>)".
C24_ShipTypeTable ==
    (decoded # None /\ KindOf(binary) = 5 /\ Len(binary) >= 424 /\ Decoded # None) =>
        LET t == BinToInt(SubSeq(binary, 233, 240))
            name == Decoded[1].ship_type_name
        IN  /\ Decoded[1].ship_type = t
            /\ t \in 20..23 => name = "Wing in ground (WIG)"
            /\ t = 30 => name = "Fishing"
            /\ t \in 31..32 => name \in {"Towing", "Towing (large)"}
            /\ t = 33 => name = "Dredging or underwater ops"
            /\ t = 34 => name = "Diving ops"
            /\ t = 35 => name = "Military ops"
            /\ t = 36 => name = "Sailing"
            /\ t = 37 => name = "Pleasure craft"
            /\ t \in 50..59 =>
                  name \in {"Pilot vessel", "Search and rescue", "Tug",
                            "Port tender", "Anti-pollution equipment",
                            "Law enforcement", "Spare - local vessel",
                            "Medical transport", "Non-combatant ship"}
            /\ t \in 60..69 => name = "Passenger"
            /\ t \in 70..79 => name = "Cargo"
            /\ t \in 80..89 => name = "Tanker"
            /\ t = 90 => name = "Other"
            /\ t \notin (20..23 \cup 30..37 \cup 50..90) =>
                  name = "Unknown (" \o ToString(t) \o ")"

\* C25: the estimator takes distance = knots * 1.852 / 3600 * elapsed (km)
\* and uses the flat-earth formula (111.0 km per degree) exactly when it is
\* below 100 km, the great-circle formula (radius 6371.0 km) exactly when it
\* is 100 km or more; both happen for 0 < elapsed < 3600 and speed <= 102.3
\* knots. Observed on a course due north or south.
C25_BranchByDistance ==
    (estimate # None /\ start[1].cog % 3600 \in {0, 1800}) =>
        LET a == start[1]
            sign == IF a.cog % 3600 = 0 THEN 1 ELSE -1
            \* distance in 1/463 of a metre: sog / 10 * 1852 / 3600 * dt
            under100km == a.sog * a.time_diff * 463 < 100 * 9000000
            flat == (a.sog * a.time_diff * 463) \div 1665
            great == (a.sog * a.time_diff * 463) \div 1668
            moved == estimate[1].position.lat - a.lat
        IN  /\ estimate[1].position.lon = a.lon \/ ~under100km
            /\ under100km => moved = sign * flat
            /\ (~under100km /\ Abs(a.lat + sign * great) <= 90 * 600000) =>
                  /\ moved = sign * great
                  /\ moved # sign * flat
                  /\ estimate[1].position.lon = a.lon
            /\ ~under100km => estimate[1].great_circle = Some(estimate[1].position)

\* 54.1 knots due north for 3594 s from the equator is 100.03 km: great circle
C25_Witness ==
    /\ estimate # None
    /\ start[1].sog = 541 /\ start[1].time_diff = 3594
    /\ start[1].cog = 0 /\ start[1].lat = 0 /\ start[1].lon = 12791072
    /\ estimate[1].position = [lat |-> 539709, lon |-> 12791072]

\* the index in data of the last point of vessel mmsi, 0 if it has none
LastPointOf(data, mmsi) ==
    LET own == { k \in 1..Len(data) : data[k].mmsi = mmsi }
    IN  IF own = {} THEN 0 ELSE CHOOSE k \in own : \A j \in own : j <= k

\* C26: after every line the stored state of a vessel is the latitude,
\* longitude, speed, course and timestamp of the last track point emitted for
\* it, a vessel has a stored state exactly if it has a track point, and the
\* stored state changes only in a step that emits a point of that vessel.
C26_StoredStateIsLastPoint ==
    [][/\ \A m \in DOMAIN ship_last_positions' :
             LET k == LastPointOf(ship_data', m)
             IN  /\ k > 0
                 /\ ship_last_positions'[m] =
                        [lat |-> ship_data'[k].lat, lon |-> ship_data'[k].lon,
                         sog |-> ship_data'[k].sog, cog |-> ship_data'[k].cog,
                         timestamp |-> ship_data'[k].timestamp]
       /\ \A k \in 1..Len(ship_data') :
             ship_data'[k].mmsi \in DOMAIN ship_last_positions'
       /\ \A m \in DOMAIN ship_last_positions' :
             (\/ m \notin DOMAIN ship_last_positions
              \/ ship_last_positions'[m] # ship_last_positions[m]) =>
                /\ Len(ship_data') = Len(ship_data) + 1
                /\ ship_data'[Len(ship_data')].mmsi = m
       /\ Len(ship_data') > Len(ship_data) =>
             ship_data'[Len(ship_data')].mmsi \in DOMAIN ship_last_positions'
       /\ DOMAIN ship_last_positions \subseteq DOMAIN ship_last_positions']_vars

\* two fixes of vessel 5, then a report of vessel 5 without a fix: the stored
\* state is that of the second point, and the third line left it alone
C26_Witness ==
    /\ Len(consumed) = 3
    /\ IsFixLine(consumed[1]) /\ IsFixLine(consumed[2])
    /\ IsMissingFixLine(consumed[3])
    /\ RawMMSI(BitsTable[consumed[3]]) = 5
    /\ Len(ship_data) = 2
    /\ ship_data[1].mmsi = 5 /\ ship_data[2].mmsi = 5
    /\ ship_data[1].lat # ship_data[2].lat
    /\ ship_last_positions[5].lat = ship_data[2].lat
    /\ ship_last_positions[5].timestamp = ship_data[2].timestamp

\* C27: whatever the order of the lines, the first track point of a vessel is
\* not dead reckoned, and a dead-reckoned point has a timestamp more than 0
\* and less than 3600 seconds after that of the previous point of its vessel.
C27_DeadReckonedOnlyWithinWindow ==
    \A k \in 1..Len(ship_data) :
        LET prev == LastPointOf(SubSeq(ship_data, 1, k - 1), ship_data[k].mmsi)
        IN  /\ prev = 0 => ~ship_data[k].is_dead_reckoned
            /\ ship_data[k].is_dead_reckoned =>
                  /\ prev > 0
                  /\ ship_data[k].timestamp - ship_data[prev].timestamp > 0
                  /\ ship_data[k].timestamp - ship_data[prev].timestamp < 3600

\* a report of vessel 5 without a fix came before any fix of vessel 5, and a
\* fix of vessel 5 stamped 300 s earlier came after it: the only point is the
\* fix and it is not dead reckoned
C27_Witness ==
    /\ Len(consumed) = 2
    /\ IsMissingFixLine(consumed[1]) /\ RawMMSI(BitsTable[consumed[1]]) = 5
    /\ IsFixLine(consumed[2]) /\ RawMMSI(BitsTable[consumed[2]]) = 5
    /\ LineTime(consumed[1]) = LineTime(consumed[2]) + 300
    /\ Len(ship_data) = 1
    /\ ship_data[1].mmsi = 5
    /\ ~ship_data[1].is_dead_reckoned

C29_OtherVesselsUntouched ==
    [][/\ DOMAIN ship_last_positions \subseteq DOMAIN ship_last_positions'
       /\ DOMAIN ship_static_data \subseteq DOMAIN ship_static_data'
       /\ \A x \in DOMAIN ship_last_positions :
             (parsed' = None \/ parsed'[1].mmsi # x) =>
                ship_last_positions'[x] = ship_last_positions[x]
       /\ \A x \in DOMAIN ship_static_data :
             (parsed' = None \/ parsed'[1].mmsi # x) =>
                ship_static_data'[x] = ship_static_data[x]
       /\ \A x \in (DOMAIN ship_last_positions' \ DOMAIN ship_last_positions)
                   \cup (DOMAIN ship_static_data' \ DOMAIN ship_static_data) :
             parsed' # None /\ parsed'[1].mmsi = x]_vars

\* vessel 6 has a stored state and a static record, then a fix of vessel 5
\* is processed: both entries of vessel 6 are still there
C29_Witness ==
    /\ Len(consumed) = 3
    /\ LineTable[consumed[1]] = Line(T0, PosB1)
    /\ LineTable[consumed[2]] = Line(T0, StaB1)
    /\ LineTable[consumed[3]] = Line(T0 + 300, PosA1)
    /\ DOMAIN ship_last_positions = {5, 6}
    /\ DOMAIN ship_static_data = {6}
    /\ ship_last_positions[6].timestamp = LineTime(consumed[1])
    /\ ship_last_positions[6].sog = 1017
    /\ ship_last_positions[5].timestamp = LineTime(consumed[3])

\* the index of the last of the first n positions that has coordinates, 0 if
\* none has: the position the next estimate is projected from
ReferenceOf(track, n) ==
    LET known == { k \in 1..n : track[k].lat # None /\ track[k].lon # None }
    IN  IF known = {} THEN 0 ELSE CHOOSE k \in known : \A j \in known : j <= k

\* C30: in _apply_dead_reckoning the elapsed time of every estimate is
\* measured from the timestamp of the position it is projected from, also
\* when that position was itself filled by dead reckoning: the reference
\* timestamp advances together with the reference latitude and longitude.
C30_ReferenceTimeAdvances ==
    [][(dr_call' # None /\ pos_i' = pos_i + 1) =>
          LET ref == ReferenceOf(positions, pos_i)
          IN  /\ ref > 0
              /\ dr_call'[1].lat = positions[ref].lat[1]
              /\ dr_call'[1].lon = positions[ref].lon[1]
              /\ dr_call'[1].time_diff =
                    positions[pos_i + 1].timestamp - positions[ref].timestamp
              /\ last_time' = Some(positions'[pos_i + 1].timestamp)]_vars

====
